---- MODULE Spec2Model ----
(***************************************************************************)
(* Model of get_redmine_issues: the batch driver (main), the per-issue     *)
(* processing (process_issue), the Redmine client, the file manager and    *)
(* the history manager.                                                    *)
(***************************************************************************)
EXTENDS Integers, Sequences, FiniteSets, TLC

(***************************************************************************)
(* Bounds                                                                  *)
(***************************************************************************)
MaxIssueId == 1
MaxIds == 2
MaxDay == 2
MaxAppends == 3

IssueIds == 1..MaxIssueId
Days == 1..MaxDay

(***************************************************************************)
(* Exceptions: the classes the code raises and the except clauses that     *)
(* catch them.                                                             *)
(***************************************************************************)
NoExc == "none"

BaseExceptions == {"KeyboardInterrupt", "SystemExit"}

\* `except <cls>` catches exc
Catches(cls, exc) ==
    /\ exc # NoExc
    /\ \/ cls = exc
       \/ cls = "Exception" /\ exc \notin BaseExceptions
       \/ cls = "OSError, ValueError" /\ exc \in {"OSError", "ValueError"}

(***************************************************************************)
(* Issue documents.  An attachment descriptor is a JSON value: a dict with *)
(* an optional id (0: missing or falsy) and an optional filename, or a     *)
(* value that is not a dict.  The filename "nul" stands for a name that    *)
(* holds a NUL byte.                                                       *)
(***************************************************************************)
Desc(i, hasName, name) == [dict |-> TRUE, id |-> i, hasName |-> hasName, filename |-> name]

A1 == Desc(1, TRUE, "f")
A2 == Desc(2, FALSE, "")
A3 == Desc(3, TRUE, "g")
A5 == Desc(5, TRUE, "f")
ANoId == Desc(0, TRUE, "g")
ANul == Desc(4, TRUE, "nul")
ANonDict == [dict |-> FALSE, id |-> 0, hasName |-> FALSE, filename |-> ""]

\* a JSON field that may be absent, null or a list
Absent == [kind |-> "absent", items |-> <<>>]
Null == [kind |-> "null", items |-> <<>>]
List(s) == [kind |-> "list", items |-> s]

Doc(issueKind, att, journals) == [issue |-> issueKind, att |-> att, journals |-> journals]

DocNoIssue == Doc("absent", Absent, Absent)
DocPlain == Doc("dict", Absent, Absent)
DocEmptyLists == Doc("dict", List(<<>>), List(<<>>))
DocExample == Doc("dict", List(<<A1, A2>>), List(<<List(<<A3>>), List(<<>>)>>))
DocJournalOnly == Doc("dict", Absent, List(<<Absent, List(<<A2>>)>>))
DocMalformed == Doc("dict", List(<<ANoId, A1>>), Absent)
DocSameName == Doc("dict", List(<<A1>>), List(<<List(<<A5>>)>>))
DocNullAtt == Doc("dict", Null, Absent)
DocNulName == Doc("dict", List(<<A1, ANul, A2>>), Absent)
DocNonDict == Doc("dict", List(<<ANonDict, A1>>), Absent)

Docs == {DocNoIssue, DocPlain, DocEmptyLists, DocExample, DocJournalOnly,
         DocMalformed, DocSameName, DocNullAtt, DocNulName, DocNonDict}

\* the documents the server answers with in a run of main
ServerDocs == {DocPlain, DocMalformed, DocSameName, DocNullAtt, DocNulName, DocNonDict}

\* the names attachments of the server's documents are stored under
Filenames == {"f", "attachment_2"}
Paths == IssueIds \X Filenames

(***************************************************************************)
(* RedmineClient                                                           *)
(***************************************************************************)
Responses == {"200", "404", "500", "timeout", "connection_error", "bad_json"}

\* RedmineClient.get_issue: the outcome for a response
get_issue(resp, body) ==
    IF resp = "404" THEN [exc |-> NoExc, found |-> FALSE, doc |-> DocNoIssue]
    ELSE IF resp = "200" THEN [exc |-> NoExc, found |-> TRUE, doc |-> body]
    ELSE [exc |-> "RedmineAPIError", found |-> FALSE, doc |-> DocNoIssue]

RECURSIVE JournalAttachments(_, _)
\* the loop over issue_data['issue']['journals']
JournalAttachments(journals, acc) ==
    IF journals = <<>> THEN [exc |-> NoExc, list |-> acc]
    ELSE LET j == Head(journals) IN
         IF j.kind = "absent" THEN JournalAttachments(Tail(journals), acc)
         ELSE IF j.kind = "null" THEN [exc |-> "TypeError", list |-> <<>>]
         ELSE JournalAttachments(Tail(journals), acc \o j.items)

\* RedmineClient.get_attachments_from_issue
get_attachments_from_issue(doc) ==
    IF doc.issue = "absent" THEN [exc |-> NoExc, list |-> <<>>]
    ELSE IF doc.issue = "null" THEN [exc |-> "TypeError", list |-> <<>>]
    ELSE IF doc.att.kind = "null" THEN [exc |-> "TypeError", list |-> <<>>]
    ELSE LET own == IF doc.att.kind = "list" THEN doc.att.items ELSE <<>> IN
         IF doc.journals.kind = "absent" THEN [exc |-> NoExc, list |-> own]
         ELSE IF doc.journals.kind = "null" THEN [exc |-> "TypeError", list |-> <<>>]
         ELSE JournalAttachments(doc.journals.items, own)

\* how a download can go: the response is not ok, the request times out or
\* the connection fails before a response, the destination cannot be
\* opened, the stream or the write breaks after the file was opened
DownloadOutcomes == {"ok", "http_error", "timeout", "connection_error", "open_error", "stream_error"}

\* RedmineClient.download_attachment: the return value, the exception that
\* escapes it and what it leaves at file_path
download_attachment(outcome, filename) ==
    IF outcome \in {"http_error", "timeout", "connection_error"}
    THEN [exc |-> NoExc, ret |-> FALSE, file |-> "none"]
    ELSE IF filename = "nul"
    THEN [exc |-> "ValueError", ret |-> FALSE, file |-> "none"]
    ELSE IF outcome = "open_error"
    THEN [exc |-> NoExc, ret |-> FALSE, file |-> "none"]
    ELSE IF outcome = "ok"
    THEN [exc |-> NoExc, ret |-> TRUE, file |-> "complete"]
    ELSE [exc |-> NoExc, ret |-> FALSE, file |-> "partial"]

\* what a request of the probe can meet besides the responses above: a
\* final response below 400 that is not 2xx, and an API key that cannot be
\* encoded as a header value (UnicodeEncodeError, which is no
\* RequestException)
ProbeOutcomes == Responses \cup {"304", "encode_error"}

\* the probe outcomes a run of main draws from
MainProbeOutcomes == {"200", "404", "500", "timeout", "connection_error", "encode_error"}

\* response.status_code, 0 when there is no response
StatusOf(resp) ==
    IF resp \in {"200", "bad_json"} THEN 200
    ELSE IF resp = "304" THEN 304
    ELSE IF resp = "404" THEN 404
    ELSE IF resp = "500" THEN 500
    ELSE 0

\* test_connection answering true to any HTTP response
test_connection_any_response(resp) ==
    IF resp = "encode_error" THEN [exc |-> "UnicodeEncodeError", ret |-> FALSE]
    ELSE [exc |-> NoExc, ret |-> StatusOf(resp) # 0]

\* RedmineClient.test_connection: response.ok, False for a RequestException
test_connection(resp) ==
    IF resp = "encode_error" THEN [exc |-> "UnicodeEncodeError", ret |-> FALSE]
    ELSE IF StatusOf(resp) = 0 THEN [exc |-> NoExc, ret |-> FALSE]
    ELSE [exc |-> NoExc, ret |-> StatusOf(resp) < 400]

(***************************************************************************)
(* FileManager                                                             *)
(***************************************************************************)
\* FileManager.get_attachment_file_path
get_attachment_file_path(issue_id, filename) == <<issue_id, filename>>

\* FileManager.save_issue_json: the exception raised and whether a file is
\* left at the issue path
SaveOutcomes == {"ok", "open_error", "write_error", "not_serializable"}

save_issue_json(outcome) ==
    IF outcome = "ok" THEN [exc |-> NoExc, file |-> TRUE]
    ELSE IF outcome = "open_error" THEN [exc |-> "OSError", file |-> FALSE]
    ELSE IF outcome = "write_error" THEN [exc |-> "OSError", file |-> TRUE]
    ELSE [exc |-> "ValueError", file |-> TRUE]

(***************************************************************************)
(* HistoryManager                                                          *)
(***************************************************************************)
NL == "\n"

\* command lines (sys.argv joined by spaces) and summaries as token
\* sequences; an argument may hold a newline
CmdLines == {<<"cmd">>, <<"cmd", NL, "arg">>}
Infos == {<<>>, <<"info">>}

NoFile == [exists |-> FALSE, content |-> <<>>]

\* LogEntry with the status the wrong way round
LogEntry_status_inverted(command_line, success, additional_info) ==
    <<"[ts]", IF success THEN "FAILED" ELSE "SUCCESS", ":">> \o command_line
    \o (IF additional_info # <<>> THEN <<"|">> \o additional_info ELSE <<>>)
    \o <<NL>>

\* the log entry log_command_execution builds
LogEntry(command_line, success, additional_info) ==
    <<"[ts]", IF success THEN "SUCCESS" ELSE "FAILED", ":">> \o command_line
    \o (IF additional_info # <<>> THEN <<"|">> \o additional_info ELSE <<>>)
    \o <<NL>>

\* the text of an entry, without the newline that ends it
EntryText(command_line, success, info) ==
    SubSeq(LogEntry(command_line, success, info), 1, Len(LogEntry(command_line, success, info)) - 1)

RECURSIVE SplitLines(_, _, _)
\* f.readlines() with the line ends stripped
SplitLines(content, cur, acc) ==
    IF content = <<>> THEN (IF cur = <<>> THEN acc ELSE Append(acc, cur))
    ELSE IF Head(content) = NL THEN SplitLines(Tail(content), <<>>, Append(acc, cur))
    ELSE SplitLines(Tail(content), Append(cur, Head(content)), acc)

\* HistoryManager.read_history_log
read_history_log(file, readOK) ==
    IF ~file.exists THEN <<>>
    ELSE IF ~readOK THEN <<>>
    ELSE SplitLines(file.content, <<>>, <<>>)

\* HistoryManager.format_summary_info
format_summary_info(successful_count, failed_count, total_count) ==
    <<"ok", ToString(successful_count), "ng", ToString(failed_count), "total", ToString(total_count)>>

LogOutcomes == {"ok", "mkdir_error", "open_error", "write_error"}

\* log_command_execution without its except clause
log_command_execution_raises(files, day, command_line, success, additional_info, outcome) ==
    [exc |-> IF outcome = "ok" THEN NoExc ELSE "OSError",
     files |-> IF outcome = "ok"
               THEN [files EXCEPT ![day] = [exists |-> TRUE,
                        content |-> @.content \o LogEntry(command_line, success, additional_info)]]
               ELSE IF outcome = "write_error"
               THEN [files EXCEPT ![day] = [exists |-> TRUE, content |-> @.content]]
               ELSE files]

\* HistoryManager.log_command_execution: the history files it leaves and
\* the exception that leaves it (its except clause swallows every Exception)
log_command_execution(files, day, command_line, success, additional_info, outcome) ==
    LET raised == IF outcome = "ok" THEN NoExc ELSE "OSError"
        entry == LogEntry(command_line, success, additional_info)
    IN  [exc |-> IF Catches("Exception", raised) THEN NoExc ELSE raised,
         files |-> IF outcome = "ok"
                   THEN [files EXCEPT ![day] = [exists |-> TRUE, content |-> @.content \o entry]]
                   ELSE IF outcome = "write_error"
                   THEN [files EXCEPT ![day] = [exists |-> TRUE, content |-> @.content]]
                   ELSE files]

(***************************************************************************)
(* State                                                                   *)
(***************************************************************************)
VARIABLES
    \* main
    pc,                 \* position in main
    args,               \* the parsed command line
    idx,                \* position of the batch loop in args.issue_ids
    successful_count,
    failed_count,
    retval,             \* the value main is about to return
    exit_status,        \* -1 while the process runs
    abort,              \* why the run left its normal path
    attempted,          \* identifiers process_issue was called with
    dirsCreated,        \* ensure_directories_exist has run
    probe,              \* the response the connection test got
    \* process_issue
    ppc,                \* position in process_issue
    issue_id,
    issue_data,
    resp,               \* the response get_issue got
    attachments,
    ai,                 \* position of the attachment loop
    download_successful,
    download_failed,
    result,             \* the value process_issue returned
    calls,              \* per call of process_issue: what it has called
    reported,           \* the failure count logged, -1 if none
    \* files
    issueFiles,         \* identifiers with a file at issues/<id>.json
    attFiles,           \* what is at attachments/<id>/<filename>
    \* history
    today,
    histFiles,
    logCalls,           \* the calls of log_command_execution
    appended,           \* per day, the entries appended successfully
    lastRead

mainVars == <<pc, args, idx, successful_count, failed_count, retval, exit_status, abort, attempted, dirsCreated, probe>>
procVars == <<ppc, issue_id, issue_data, resp, attachments, ai, download_successful, download_failed, result, calls, reported>>
fsVars == <<issueFiles, attFiles>>
histVars == <<today, histFiles, logCalls, appended, lastRead>>
vars == <<mainVars, procVars, fsVars, histVars>>

NoCalls == [get_issue |-> 0, save_issue_json |-> 0, download_attachment |-> 0,
            download_false |-> 0, malformed |-> 0, existing |-> 0,
            existed |-> FALSE, saved |-> FALSE]

RECURSIVE SeqsUpTo(_, _)
\* the sequences over S of length 1..n
SeqsUpTo(S, n) ==
    IF n = 0 THEN {}
    ELSE LET shorter == SeqsUpTo(S, n - 1)
         IN  {<<x>> : x \in S} \cup shorter \cup {Append(q, x) : q \in shorter, x \in S}

\* what parse_arguments can return or do
ArgSets ==
    [mode : {"fetch"}, issue_ids : SeqsUpTo(IssueIds, MaxIds),
     skip_existing : BOOLEAN, no_attachments : BOOLEAN, command_line : {<<"cmd">>}]
    \cup [mode : {"show_history", "list_history_dates", "error"}, issue_ids : {<<>>},
          skip_existing : {FALSE}, no_attachments : {FALSE}, command_line : {<<"cmd">>}]

\* attachment files left by earlier runs
InitialAttFiles ==
    {[p \in Paths |-> "none"],
     [p \in Paths |-> IF p = <<1, "f">> THEN "complete" ELSE "none"],
     [p \in Paths |-> IF p = <<1, "f">> THEN "partial" ELSE "none"]}

ProcInit ==
    /\ ppc = "idle"
    /\ issue_id = 0
    /\ issue_data = DocNoIssue
    /\ resp = "none"
    /\ attachments = <<>>
    /\ ai = 0
    /\ download_successful = 0
    /\ download_failed = 0
    /\ result = FALSE
    /\ calls = NoCalls
    /\ reported = -1

\* the frame of process_issue is gone
ProcReset ==
    /\ ppc' = "idle"
    /\ issue_id' = 0
    /\ issue_data' = DocNoIssue
    /\ resp' = "none"
    /\ attachments' = <<>>
    /\ ai' = 0
    /\ download_successful' = 0
    /\ download_failed' = 0
    /\ result' = FALSE
    /\ calls' = NoCalls
    /\ reported' = -1

\* the state when main has constructed the HistoryManager
Init ==
    /\ pc = "parse"
    /\ args \in ArgSets
    /\ idx = 0
    /\ successful_count = 0
    /\ failed_count = 0
    /\ retval = -1
    /\ exit_status = -1
    /\ abort = "none"
    /\ attempted = <<>>
    /\ dirsCreated = FALSE
    /\ probe = "none"
    /\ ProcInit
    /\ issueFiles \in SUBSET IssueIds
    /\ attFiles \in InitialAttFiles
    /\ today = 1
    /\ \E earlier \in {<<>>, <<"cmd">>} :
          /\ histFiles = [d \in Days |-> IF d = 1 /\ earlier # <<>>
                                          THEN [exists |-> TRUE, content |-> LogEntry(earlier, TRUE, <<>>)]
                                          ELSE NoFile]
          /\ appended = [d \in Days |-> IF d = 1 /\ earlier # <<>>
                                         THEN <<EntryText(earlier, TRUE, <<>>)>> ELSE <<>>]
    /\ logCalls = <<>>
    /\ lastRead = <<>>

(***************************************************************************)
(* main: exception dispatch                                                *)
(***************************************************************************)
TryPcs == {"parse", "show_history", "list_history_dates", "config", "probe",
           "layout", "loop", "summary", "ret_try"}
HandlerPcs == {"h_config", "h_interrupt", "h_unexpected", "ret_h"}

\* the except clause of main that handles exc
main_except(exc) ==
    IF Catches("ConfigError", exc) THEN "h_config"
    ELSE IF Catches("KeyboardInterrupt", exc) THEN "h_interrupt"
    ELSE IF Catches("Exception", exc) THEN "h_unexpected"
    ELSE "uncaught"

\* where an exception raised in main leads: a handler when it is raised in
\* the try block and a clause catches it, else the end of the process
Propagate(exc, inTry) ==
    LET h == IF inTry THEN main_except(exc) ELSE "uncaught"
    IN  [pc |-> IF h = "uncaught" THEN "done" ELSE h,
         exit_status |-> IF h # "uncaught" THEN -1
                         ELSE IF exc = "SystemExit" THEN 2
                         ELSE IF exc = "KeyboardInterrupt" THEN 130
                         ELSE 1]

Cause(exc) ==
    IF exc = "SystemExit" THEN "argument"
    ELSE IF exc = "ConfigError" THEN "config"
    ELSE IF exc = "KeyboardInterrupt" THEN "interrupt"
    ELSE "unexpected"

\* an exception is raised at the current position of main
RaiseInMain(exc) ==
    LET to == Propagate(exc, pc \in TryPcs)
    IN  /\ pc' = to.pc
        /\ exit_status' = to.exit_status
        /\ abort' = IF abort = "none" THEN Cause(exc) ELSE abort

\* the history files and the account of a call of log_command_execution
RecordLog(files, command_line, success, info, outcome) ==
    /\ histFiles' = files
    /\ logCalls' = Append(logCalls, [success |-> success, info |-> info, wrote |-> outcome = "ok"])
    /\ appended' = IF outcome = "ok"
                   THEN [appended EXCEPT ![today] = Append(@, EntryText(command_line, success, info))]
                   ELSE appended

\* main calls log_command_execution and goes on to return ret
LogAndReturn(success, info, ret, outcome) ==
    LET r == log_command_execution(histFiles, today, args.command_line, success, info, outcome)
    IN  /\ RecordLog(r.files, args.command_line, success, info, outcome)
        /\ UNCHANGED <<today, lastRead>>
        /\ IF r.exc = NoExc
           THEN /\ pc' = IF pc \in TryPcs THEN "ret_try" ELSE "ret_h"
                /\ retval' = ret
                /\ UNCHANGED exit_status
           ELSE /\ pc' = Propagate(r.exc, pc \in TryPcs).pc
                /\ exit_status' = Propagate(r.exc, pc \in TryPcs).exit_status
                /\ UNCHANGED retval

(***************************************************************************)
(* main                                                                    *)
(***************************************************************************)
\* parse_arguments
ParseArguments ==
    /\ pc = "parse"
    /\ IF args.mode = "error"
       THEN RaiseInMain("SystemExit")
       ELSE /\ pc' = IF args.mode = "fetch" THEN "config" ELSE args.mode
            /\ UNCHANGED <<exit_status, abort>>
    /\ UNCHANGED <<args, idx, successful_count, failed_count, retval, attempted, dirsCreated, probe>>
    /\ UNCHANGED <<procVars, fsVars, histVars>>

\* --show-history
ShowHistory ==
    /\ pc = "show_history"
    /\ \E readOK \in BOOLEAN, printOK \in BOOLEAN :
          /\ lastRead' = read_history_log(histFiles[today], readOK)
          /\ IF printOK
             THEN pc' = "ret_try" /\ retval' = 0 /\ UNCHANGED <<exit_status, abort>>
             ELSE RaiseInMain("OSError") /\ UNCHANGED retval
    /\ UNCHANGED <<args, idx, successful_count, failed_count, attempted, dirsCreated, probe>>
    /\ UNCHANGED <<procVars, fsVars, today, histFiles, logCalls, appended>>

\* --list-history-dates
ListHistoryDates ==
    /\ pc = "list_history_dates"
    /\ \E printOK \in BOOLEAN :
          IF printOK
          THEN pc' = "ret_try" /\ retval' = 0 /\ UNCHANGED <<exit_status, abort>>
          ELSE RaiseInMain("OSError") /\ UNCHANGED retval
    /\ UNCHANGED <<args, idx, successful_count, failed_count, attempted, dirsCreated, probe>>
    /\ UNCHANGED <<procVars, fsVars, histVars>>

\* ConfigManager.load_config and validate_config
LoadConfig ==
    /\ pc = "config"
    /\ \E configOK \in BOOLEAN :
          IF configOK
          THEN pc' = "probe" /\ UNCHANGED <<exit_status, abort>>
          ELSE RaiseInMain("ConfigError")
    /\ UNCHANGED <<args, idx, successful_count, failed_count, retval, attempted, dirsCreated, probe>>
    /\ UNCHANGED <<procVars, fsVars, histVars>>

\* the connection test, and the record of its failure
TestConnection ==
    /\ pc = "probe"
    /\ \E r \in MainProbeOutcomes :
          /\ probe' = r
          /\ IF test_connection(r).exc # NoExc
             THEN /\ RaiseInMain(test_connection(r).exc)
                  /\ UNCHANGED <<retval, histVars>>
             ELSE IF test_connection(r).ret
             THEN /\ pc' = "layout"
                  /\ UNCHANGED <<retval, exit_status, abort, histVars>>
             ELSE /\ \E o \in LogOutcomes : LogAndReturn(FALSE, <<"connect">>, 1, o)
                  /\ abort' = "connect"
    /\ UNCHANGED <<args, idx, successful_count, failed_count, attempted, dirsCreated>>
    /\ UNCHANGED <<procVars, fsVars>>

\* FileManager.ensure_directories_exist
EnsureDirectories ==
    /\ pc = "layout"
    /\ \E mkdirOK \in BOOLEAN :
          IF mkdirOK
          THEN pc' = "loop" /\ dirsCreated' = TRUE /\ UNCHANGED <<exit_status, abort>>
          ELSE RaiseInMain("OSError") /\ UNCHANGED dirsCreated
    /\ UNCHANGED <<args, idx, successful_count, failed_count, retval, attempted, probe>>
    /\ UNCHANGED <<procVars, fsVars, histVars>>

\* the batch loop calls process_issue for the next identifier
CallProcessIssue ==
    /\ pc = "loop"
    /\ ppc = "idle"
    /\ idx < Len(args.issue_ids)
    /\ ppc' = "check"
    /\ issue_id' = args.issue_ids[idx + 1]
    /\ attempted' = Append(attempted, args.issue_ids[idx + 1])
    /\ issue_data' = DocNoIssue
    /\ resp' = "none"
    /\ attachments' = <<>>
    /\ ai' = 0
    /\ download_successful' = 0
    /\ download_failed' = 0
    /\ result' = FALSE
    /\ calls' = [NoCalls EXCEPT !.existed = args.issue_ids[idx + 1] \in issueFiles]
    /\ reported' = -1
    /\ UNCHANGED <<pc, args, idx, successful_count, failed_count, retval, exit_status, abort, dirsCreated, probe>>
    /\ UNCHANGED <<fsVars, histVars>>

\* the batch loop counts what process_issue returned
TallyResult ==
    /\ pc = "loop"
    /\ ppc = "ret"
    /\ ProcReset
    /\ idx' = idx + 1
    /\ IF result
       THEN successful_count' = successful_count + 1 /\ UNCHANGED failed_count
       ELSE failed_count' = failed_count + 1 /\ UNCHANGED successful_count
    /\ UNCHANGED <<pc, args, retval, exit_status, abort, attempted, dirsCreated, probe>>
    /\ UNCHANGED <<fsVars, histVars>>

\* the batch loop ends
LoopExit ==
    /\ pc = "loop"
    /\ ppc = "idle"
    /\ idx = Len(args.issue_ids)
    /\ pc' = "summary"
    /\ UNCHANGED <<args, idx, successful_count, failed_count, retval, exit_status, abort, attempted, dirsCreated, probe>>
    /\ UNCHANGED <<procVars, fsVars, histVars>>

\* batch_failed off by one
batch_failed_off_by_one(failed) == failed > 1

\* the test main makes of the tally
batch_failed(failed) == failed > 0

\* the record of the batch and the value to return
Summarize ==
    /\ pc = "summary"
    /\ LET info == format_summary_info(successful_count, failed_count, Len(args.issue_ids))
       IN  \E o \in LogOutcomes :
             IF batch_failed(failed_count)
             THEN LogAndReturn(FALSE, info, 1, o)
             ELSE LogAndReturn(TRUE, info, 0, o)
    /\ UNCHANGED <<args, idx, successful_count, failed_count, abort, attempted, dirsCreated, probe>>
    /\ UNCHANGED <<procVars, fsVars>>

\* the except clauses of main
HandleException ==
    /\ pc \in {"h_config", "h_interrupt", "h_unexpected"}
    /\ \E o \in LogOutcomes : LogAndReturn(FALSE, <<pc>>, 1, o)
    /\ UNCHANGED <<args, idx, successful_count, failed_count, abort, attempted, dirsCreated, probe>>
    /\ UNCHANGED <<procVars, fsVars>>

\* main returns and sys.exit takes its value
Return ==
    /\ pc \in {"ret_try", "ret_h"}
    /\ pc' = "done"
    /\ exit_status' = retval
    /\ UNCHANGED <<args, idx, successful_count, failed_count, retval, abort, attempted, dirsCreated, probe>>
    /\ UNCHANGED <<procVars, fsVars, histVars>>

(***************************************************************************)
(* process_issue                                                           *)
(***************************************************************************)
\* FileManager.file_exists
file_exists(files, id) == id \in files

\* os_path_exists taking only a completely written file for an existing one
os_path_exists_complete_only(files, id, filename) ==
    IF filename \notin Filenames THEN FALSE
    ELSE files[get_attachment_file_path(id, filename)] = "complete"

\* os.path.exists of an attachment path (False for a name with a NUL byte)
os_path_exists(files, id, filename) ==
    IF filename \notin Filenames THEN FALSE
    ELSE files[get_attachment_file_path(id, filename)] # "none"

\* skip_check with the existence test negated
skip_check_negated(skip_existing, exists) == skip_existing /\ ~exists

\* the existence check at the head of process_issue
skip_check(skip_existing, exists) == skip_existing /\ exists

\* after_get_issue without the test for None
after_get_issue_no_none_test(g) ==
    IF g.exc # NoExc THEN "raise" ELSE "save"

\* what process_issue does with the value of get_issue
after_get_issue(g) ==
    IF g.exc # NoExc THEN "raise"
    ELSE IF ~g.found THEN "return_false"
    ELSE "save"

\* process_issue without its last except clause
process_issue_except_no_catch_all(exc) ==
    IF Catches("RedmineAPIError", exc) THEN "return_false"
    ELSE IF Catches("OSError, ValueError", exc) THEN "return_false"
    ELSE "propagate"

\* process_issue letting an API error through to its caller
process_issue_except_reraises_api_error(exc) ==
    IF Catches("RedmineAPIError", exc) THEN "propagate"
    ELSE IF Catches("OSError, ValueError", exc) THEN "return_false"
    ELSE IF Catches("Exception", exc) THEN "return_false"
    ELSE "propagate"

\* the except clauses of process_issue
process_issue_except(exc) ==
    IF Catches("RedmineAPIError", exc) THEN "return_false"
    ELSE IF Catches("OSError, ValueError", exc) THEN "return_false"
    ELSE IF Catches("Exception", exc) THEN "return_false"
    ELSE "propagate"

\* process_issue returns r
PReturn(r) ==
    /\ ppc' = "ret"
    /\ result' = r
    /\ UNCHANGED <<pc, exit_status, abort>>

\* exc is raised inside the try block of process_issue
PRaise(exc) ==
    IF process_issue_except(exc) = "return_false"
    THEN PReturn(FALSE)
    ELSE /\ ppc' = "raised"
         /\ UNCHANGED result
         /\ RaiseInMain(exc)

\* process_issue goes on to position p
PGoto(p) ==
    /\ ppc' = p
    /\ UNCHANGED <<result, pc, exit_status, abort>>

MainRest == <<args, idx, successful_count, failed_count, retval, attempted, dirsCreated, probe>>

PSkipCheck ==
    /\ pc = "loop"
    /\ ppc = "check"
    /\ IF skip_check(args.skip_existing, file_exists(issueFiles, issue_id))
       THEN PReturn(TRUE)
       ELSE PGoto("fetch")
    /\ UNCHANGED <<issue_id, issue_data, resp, attachments, ai, download_successful, download_failed, calls, reported>>
    /\ UNCHANGED <<MainRest, fsVars, histVars>>

PGetIssue ==
    /\ pc = "loop"
    /\ ppc = "fetch"
    /\ \E r \in Responses, body \in ServerDocs :
          LET g == get_issue(r, body)
              next == after_get_issue(g)
          IN  /\ resp' = r
              /\ calls' = [calls EXCEPT !.get_issue = @ + 1]
              /\ issue_data' = g.doc
              /\ IF next = "raise" THEN PRaise(g.exc)
                 ELSE IF next = "return_false" THEN PReturn(FALSE)
                 ELSE PGoto("save")
    /\ UNCHANGED <<issue_id, attachments, ai, download_successful, download_failed, reported>>
    /\ UNCHANGED <<MainRest, fsVars, histVars>>

\* after_save_issue going on to the attachments whatever the flag
after_save_issue_ignores_flag(s, download_attachments) ==
    IF s.exc # NoExc THEN "raise" ELSE "extract"

\* what process_issue does after save_issue_json: download_attachments is
\* `not args.no_attachments`
after_save_issue(s, download_attachments) ==
    IF s.exc # NoExc THEN "raise"
    ELSE IF download_attachments THEN "extract"
    ELSE "return_true"

PSaveIssue ==
    /\ pc = "loop"
    /\ ppc = "save"
    /\ \E o \in SaveOutcomes :
          LET s == save_issue_json(o)
              next == after_save_issue(s, ~args.no_attachments)
          IN  /\ calls' = [calls EXCEPT !.save_issue_json = @ + 1, !.saved = s.exc = NoExc]
              /\ issueFiles' = IF s.file THEN issueFiles \cup {issue_id} ELSE issueFiles
              /\ IF next = "raise" THEN PRaise(s.exc)
                 ELSE IF next = "extract" THEN PGoto("extract")
                 ELSE PReturn(TRUE)
    /\ UNCHANGED <<issue_id, issue_data, resp, attachments, ai, download_successful, download_failed, reported>>
    /\ UNCHANGED <<MainRest, attFiles, histVars>>

PExtractAttachments ==
    /\ pc = "loop"
    /\ ppc = "extract"
    /\ LET e == get_attachments_from_issue(issue_data)
       IN  IF e.exc # NoExc
           THEN PRaise(e.exc) /\ UNCHANGED <<attachments, ai>>
           ELSE IF e.list = <<>>
           THEN PReturn(TRUE) /\ UNCHANGED <<attachments, ai>>
           ELSE PGoto("fan") /\ attachments' = e.list /\ ai' = 1
    /\ UNCHANGED <<issue_id, issue_data, resp, download_successful, download_failed, calls, reported>>
    /\ UNCHANGED <<MainRest, fsVars, histVars>>

\* count_attachment that leaves a descriptor without id uncounted
count_attachment_drops_malformed(kind, successful, failed) ==
    IF kind \in {"existing", "downloaded"}
    THEN [successful |-> successful + 1, failed |-> failed]
    ELSE IF kind = "malformed"
    THEN [successful |-> successful, failed |-> failed]
    ELSE [successful |-> successful, failed |-> failed + 1]

\* the counters of the attachment loop after one element: it had no id, its
\* file was there, its download returned true or false
count_attachment(kind, successful, failed) ==
    IF kind \in {"existing", "downloaded"}
    THEN [successful |-> successful + 1, failed |-> failed]
    ELSE [successful |-> successful, failed |-> failed + 1]

Counted(kind) ==
    /\ download_successful' = count_attachment(kind, download_successful, download_failed).successful
    /\ download_failed' = count_attachment(kind, download_successful, download_failed).failed

\* the attachment loop goes to its next element or ends
NextAttachment ==
    IF ai < Len(attachments)
    THEN PGoto("fan") /\ ai' = ai + 1
    ELSE PGoto("report") /\ UNCHANGED ai

\* one pass of the attachment loop
PAttachment ==
    /\ pc = "loop"
    /\ ppc = "fan"
    /\ LET attachment == attachments[ai]
           filename == IF attachment.hasName THEN attachment.filename
                       ELSE "attachment_" \o ToString(attachment.id)
       IN  IF ~attachment.dict
           THEN /\ PRaise("AttributeError")
                /\ UNCHANGED <<ai, download_successful, download_failed, calls, attFiles>>
           ELSE IF attachment.id = 0
           THEN /\ Counted("malformed")
                /\ calls' = [calls EXCEPT !.malformed = @ + 1]
                /\ NextAttachment
                /\ UNCHANGED attFiles
           ELSE IF os_path_exists(attFiles, issue_id, filename)
           THEN /\ Counted("existing")
                /\ calls' = [calls EXCEPT !.existing = @ + 1]
                /\ NextAttachment
                /\ UNCHANGED attFiles
           ELSE \E o \in DownloadOutcomes :
                  LET d == download_attachment(o, filename)
                  IN  /\ attFiles' = IF d.file = "none" THEN attFiles
                                     ELSE [attFiles EXCEPT ![get_attachment_file_path(issue_id, filename)] = d.file]
                      /\ IF d.exc # NoExc
                         THEN /\ PRaise(d.exc)
                              /\ calls' = [calls EXCEPT !.download_attachment = @ + 1]
                              /\ UNCHANGED <<ai, download_successful, download_failed>>
                         ELSE IF d.ret
                         THEN /\ Counted("downloaded")
                              /\ calls' = [calls EXCEPT !.download_attachment = @ + 1]
                              /\ NextAttachment
                         ELSE /\ Counted("failed")
                              /\ calls' = [calls EXCEPT !.download_attachment = @ + 1,
                                                        !.download_false = @ + 1]
                              /\ NextAttachment
    /\ UNCHANGED <<issue_id, issue_data, resp, attachments, reported, issueFiles>>
    /\ UNCHANGED <<MainRest, histVars>>

\* the count of failed attachments is logged and process_issue returns
PReport ==
    /\ pc = "loop"
    /\ ppc = "report"
    /\ reported' = download_failed
    /\ PReturn(TRUE)
    /\ UNCHANGED <<issue_id, issue_data, resp, attachments, ai, download_successful, download_failed, calls>>
    /\ UNCHANGED <<MainRest, fsVars, histVars>>

(***************************************************************************)
(* The operator's interrupt                                                *)
(***************************************************************************)
Interrupt ==
    /\ pc \in TryPcs \cup HandlerPcs
    /\ IF ppc = "idle"
       THEN RaiseInMain("KeyboardInterrupt") /\ UNCHANGED procVars
       ELSE IF ppc = "ret" \/ process_issue_except("KeyboardInterrupt") = "propagate"
       THEN RaiseInMain("KeyboardInterrupt") /\ ProcReset
       ELSE /\ PReturn(FALSE)
            /\ UNCHANGED <<issue_id, issue_data, resp, attachments, ai, download_successful, download_failed, calls, reported>>
    /\ UNCHANGED <<MainRest, fsVars, histVars>>

Next ==
    \/ ParseArguments
    \/ ShowHistory
    \/ ListHistoryDates
    \/ LoadConfig
    \/ TestConnection
    \/ EnsureDirectories
    \/ CallProcessIssue
    \/ TallyResult
    \/ LoopExit
    \/ Summarize
    \/ HandleException
    \/ Return
    \/ PSkipCheck
    \/ PGetIssue
    \/ PSaveIssue
    \/ PExtractAttachments
    \/ PAttachment
    \/ PReport
    \/ Interrupt

Spec == Init /\ [][Next]_vars

(***************************************************************************)
(* The history manager on its own                                          *)
(***************************************************************************)
InitHistory ==
    /\ pc = "history"
    /\ args = [mode |-> "history", issue_ids |-> <<>>, skip_existing |-> FALSE,
               no_attachments |-> FALSE, command_line |-> <<"cmd">>]
    /\ idx = 0
    /\ successful_count = 0
    /\ failed_count = 0
    /\ retval = -1
    /\ exit_status = -1
    /\ abort = "none"
    /\ attempted = <<>>
    /\ dirsCreated = FALSE
    /\ probe = "none"
    /\ ProcInit
    /\ issueFiles = {}
    /\ attFiles = [p \in Paths |-> "none"]
    /\ today = 1
    /\ histFiles = [d \in Days |-> NoFile]
    /\ appended = [d \in Days |-> <<>>]
    /\ logCalls = <<>>
    /\ lastRead = <<>>

\* a call of log_command_execution
HLog ==
    /\ pc = "history"
    /\ Len(logCalls) < MaxAppends
    /\ \E command_line \in CmdLines, success \in BOOLEAN, info \in Infos, o \in LogOutcomes :
          RecordLog(log_command_execution(histFiles, today, command_line, success, info, o).files,
                    command_line, success, info, o)
    /\ UNCHANGED <<today, lastRead>>
    /\ UNCHANGED <<mainVars, procVars, fsVars>>

\* a call of read_history_log
HRead ==
    /\ pc = "history"
    /\ \E readOK \in BOOLEAN : lastRead' = read_history_log(histFiles[today], readOK)
    /\ UNCHANGED <<today, histFiles, logCalls, appended>>
    /\ UNCHANGED <<mainVars, procVars, fsVars>>

\* midnight passes
HNextDay ==
    /\ pc = "history"
    /\ today < MaxDay
    /\ today' = today + 1
    /\ UNCHANGED <<histFiles, logCalls, appended, lastRead>>
    /\ UNCHANGED <<mainVars, procVars, fsVars>>

NextHistory == HLog \/ HRead \/ HNextDay

SpecHistory == InitHistory /\ [][NextHistory]_vars

(***************************************************************************)
(* The client's pure methods on their own: test_connection over every      *)
(* outcome of the probe request, get_attachments_from_issue over a space   *)
(* of issue documents.                                                     *)
(***************************************************************************)
\* issue.attachments of the documents tried
OwnLists == {Absent, Null, List(<<>>), List(<<A1>>), List(<<A1, A2>>)}

\* issue.journals of the documents tried; an entry is the entry's own
\* attachments field
JournalLists == {Absent, Null, List(<<>>), List(<<Absent>>), List(<<Null>>),
                 List(<<List(<<A3>>), List(<<>>)>>), List(<<Absent, List(<<A2>>)>>),
                 List(<<List(<<A5>>), List(<<A3>>)>>)}

DocSpace ==
    Docs \cup {Doc("null", Absent, Absent)}
         \cup {Doc("dict", a, j) : a \in OwnLists, j \in JournalLists}

InitClient ==
    /\ pc = "client"
    /\ args = [mode |-> "client", issue_ids |-> <<>>, skip_existing |-> FALSE,
               no_attachments |-> FALSE, command_line |-> <<"cmd">>]
    /\ idx = 0
    /\ successful_count = 0
    /\ failed_count = 0
    /\ retval = -1
    /\ exit_status = -1
    /\ abort = "none"
    /\ attempted = <<>>
    /\ dirsCreated = FALSE
    /\ probe = "none"
    /\ ppc = "idle"
    /\ issue_id = 0
    /\ issue_data \in DocSpace
    /\ resp = "none"
    /\ attachments = <<>>
    /\ ai = 0
    /\ download_successful = 0
    /\ download_failed = 0
    /\ result = FALSE
    /\ calls = NoCalls
    /\ reported = -1
    /\ issueFiles = {}
    /\ attFiles = [p \in Paths |-> "none"]
    /\ today = 1
    /\ histFiles = [d \in Days |-> NoFile]
    /\ appended = [d \in Days |-> <<>>]
    /\ logCalls = <<>>
    /\ lastRead = <<>>

\* a call of test_connection: probe is the outcome of its request, result
\* its return value, ppc whether it returned or raised
XTestConnection ==
    /\ pc = "client"
    /\ \E r \in ProbeOutcomes :
          /\ probe' = r
          /\ ppc' = IF test_connection(r).exc # NoExc THEN "raised" ELSE "ret"
          /\ result' = test_connection(r).ret
    /\ attachments' = <<>>
    /\ UNCHANGED <<issue_id, issue_data, resp, ai, download_successful, download_failed, calls, reported>>
    /\ UNCHANGED <<args, idx, successful_count, failed_count, retval, exit_status, abort, attempted, dirsCreated>>
    /\ UNCHANGED <<pc, fsVars, histVars>>

\* a call of get_attachments_from_issue(issue_data): attachments is the list
\* it returns, ppc whether it returned or raised
XExtract ==
    /\ pc = "client"
    /\ attachments' = get_attachments_from_issue(issue_data).list
    /\ ppc' = IF get_attachments_from_issue(issue_data).exc # NoExc THEN "raised" ELSE "ret"
    /\ result' = FALSE
    /\ probe' = "none"
    /\ UNCHANGED <<issue_id, issue_data, resp, ai, download_successful, download_failed, calls, reported>>
    /\ UNCHANGED <<args, idx, successful_count, failed_count, retval, exit_status, abort, attempted, dirsCreated>>
    /\ UNCHANGED <<pc, fsVars, histVars>>

NextClient == XTestConnection \/ XExtract

SpecClient == InitClient /\ [][NextClient]_vars

TypeOK ==
    /\ pc \in TryPcs \cup HandlerPcs \cup {"done", "history", "client"}
    /\ ppc \in {"idle", "check", "fetch", "save", "extract", "fan", "report", "ret", "raised"}
    /\ exit_status \in {-1, 0, 1, 2, 130}

(***************************************************************************)
(* Properties                                                              *)
(***************************************************************************)
InCall == ppc \in {"check", "fetch", "save", "extract", "fan", "report", "ret", "raised"}

LastLog == logCalls[Len(logCalls)]

\* C1: when the fetch of an identifier gets a 404 response, process_issue
\* returns False without calling save_issue_json, and no file appears at
\* the issue path that was not there when the call began.
C1_NotFoundFails ==
    resp = "404" =>
        /\ ppc = "ret"
        /\ result = FALSE
        /\ calls.save_issue_json = 0
        /\ (issue_id \in issueFiles => calls.existed)

C1_Witness ==
    /\ ppc = "ret"
    /\ resp = "404"
    /\ result = FALSE
    /\ issue_id \notin issueFiles

\* C2: with skip_existing set and a file at the issue path when the call
\* begins, process_issue returns True and calls neither get_issue nor
\* download_attachment.
C2_SkipExistingNoNetwork ==
    (InCall /\ args.skip_existing /\ calls.existed) =>
        /\ ppc \in {"check", "ret"}
        /\ calls.get_issue = 0
        /\ calls.download_attachment = 0
        /\ (ppc = "ret" => result = TRUE)

C2_Witness ==
    /\ ppc = "ret"
    /\ args.skip_existing
    /\ calls.existed
    /\ result = TRUE
    /\ calls.get_issue = 0

\* C3: once save_issue_json has completed, process_issue returns True and
\* has gone through every extracted attachment, whatever happens while the
\* attachments are extracted and downloaded.
C3_AttachmentsNeverFailTheIssue ==
    (ppc = "ret" /\ calls.saved) =>
        /\ result = TRUE
        /\ (attachments # <<>> => ai = Len(attachments))

\* C4 as stated: the failure count process_issue reports is the number of
\* download_attachment calls that returned false, and successes plus
\* failures is the number of descriptors.
C4_FailuresAreFalseDownloads ==
    reported # -1 =>
        /\ reported = calls.download_false
        /\ download_successful + download_failed = Len(attachments)

\* C4 amended: the failure count process_issue reports is the number of
\* download_attachment calls that returned false plus the number of
\* descriptors without an id; the successes are the files already there
\* plus the downloads that returned true; together they are the number of
\* descriptors.
C4_FailuresAreFalseDownloadsAndMalformed ==
    /\ reported # -1 =>
          /\ reported = calls.download_false + calls.malformed
          /\ download_successful = calls.existing + (calls.download_attachment - calls.download_false)
          /\ download_successful + download_failed = Len(attachments)
    /\ ppc = "fan" => download_successful + download_failed = ai - 1

C4_Witness ==
    /\ ppc = "ret"
    /\ reported = 2
    /\ calls.malformed = 1
    /\ calls.download_false = 1

\* C5 as stated: main's exit status is non-zero exactly when an issue failed.
C5_NonZeroIffIssueFailed ==
    pc = "done" => (exit_status # 0 <=> failed_count > 0)

\* C5 amended: main's exit status is non-zero exactly when an issue failed
\* in process_issue or the run left its normal path (argument error,
\* configuration error, failed connection test, unexpected error,
\* interrupt); a run that completes with every issue skipped or succeeded
\* exits 0.
C5_NonZeroIffFailedOrAborted ==
    pc = "done" => (exit_status # 0 <=> (failed_count > 0 \/ abort # "none"))

C5_Witness ==
    /\ pc = "done"
    /\ exit_status = 1
    /\ failed_count = 0
    /\ abort = "connect"

C7_AlwaysARecord ==
    pc = "done" => (logCalls # <<>> /\ LastLog.wrote)

\* the file ends with a record of the command with the status for success
RecordAtEnd(content, command_line, success, info) ==
    LET n == Len(LogEntry(command_line, TRUE, info))
        tail == SubSeq(content, Len(content) - n + 1, Len(content))
    IN  /\ Len(content) >= n
        /\ tail[1] = "[ts]"
        /\ tail[2] = (IF success THEN "SUCCESS" ELSE "FAILED")
        /\ SubSeq(tail, 4, 3 + Len(command_line)) = command_line
        /\ tail[n] = NL

\* C7 amended: a run of main that returns from the fetch mode, or returns 1,
\* has called log_command_execution last with the status of the value it
\* returns, and that record is at the end of today's log when the append
\* succeeded (a failed append leaves none); a history-display mode that
\* returns 0 and an argument error append nothing.
C7_RecordWhenFetchRunReturns ==
    /\ (pc = "done" /\ exit_status \in {0, 1}) =>
          IF args.mode = "fetch" \/ exit_status = 1
          THEN /\ logCalls # <<>>
               /\ LastLog.success = (exit_status = 0)
               /\ LastLog.wrote =>
                     RecordAtEnd(histFiles[today].content, args.command_line,
                                 exit_status = 0, LastLog.info)
          ELSE logCalls = <<>>
    /\ (pc = "done" /\ exit_status = 2) => logCalls = <<>>

C7_Witness ==
    /\ pc = "done"
    /\ args.mode = "fetch"
    /\ exit_status = 0
    /\ LastLog.wrote

\* C8: when the configuration fails to load or the connection test gets an
\* error status or no response (it returns false), the run ends non-zero and has
\* called process_issue for no identifier, created no output directory and
\* made no get_issue, save_issue_json or download_attachment call.
C8_PreflightFailureTouchesNothing ==
    (abort = "config" \/ probe \in {"404", "500", "timeout", "connection_error"}) =>
        /\ attempted = <<>>
        /\ ~dirsCreated
        /\ ppc = "idle"
        /\ calls = NoCalls
        /\ pc \notin {"layout", "loop", "summary"}
        /\ (pc = "done" => exit_status # 0)

C8_Witness ==
    /\ pc = "done"
    /\ probe = "500"
    /\ exit_status = 1
    /\ attempted = <<>>

\* C9: whether or not the append succeeds, log_command_execution returns to
\* main, which goes on to return the value it was about to return: the exit
\* status of a run that returns follows the status main passed to its last
\* log_command_execution call, not the fate of the append.
C9_AppendFailureSwallowed ==
    /\ [](( pc = "done" /\ exit_status \in {0, 1} /\ logCalls # <<>>) =>
             exit_status = (IF LastLog.success THEN 0 ELSE 1))
    /\ [][Len(logCalls') = Len(logCalls) + 1 =>
             /\ pc' = (IF pc \in TryPcs THEN "ret_try" ELSE "ret_h")
             /\ retval' = (IF logCalls'[Len(logCalls')].success THEN 0 ELSE 1)
             /\ exit_status' = exit_status]_vars

C9_Witness ==
    /\ pc = "done"
    /\ exit_status = 0
    /\ logCalls # <<>>
    /\ ~LastLog.wrote

\* C10: the history file of a day has one line per successful append, in
\* append order: read_history_log returns the entries appended that day.
C10_OneLinePerAppend ==
    \A d \in Days :
        /\ Len(read_history_log(histFiles[d], TRUE)) = Len(appended[d])
        /\ read_history_log(histFiles[d], TRUE) = appended[d]

\* C11: test_connection never raises; it returns true only when the probe
\* request got a 2xx response and false for every other outcome.
C11_ProbeNeverRaisesTrueOnly2xx ==
    (pc = "client" /\ probe # "none") =>
        /\ ppc = "ret"
        /\ result = (StatusOf(probe) \in 200..299)

RECURSIVE Flatten(_)
\* the attachment lists of the journal entries, in journal order
Flatten(journals) ==
    IF journals = <<>> THEN <<>>
    ELSE Head(journals).items \o Flatten(Tail(journals))

\* the issue's own attachment list followed by those of its journals
Expected(doc) ==
    IF doc.issue # "dict" THEN <<>>
    ELSE doc.att.items \o Flatten(doc.journals.items)

\* C12: for every issue document get_attachments_from_issue returns the
\* issue's own attachments followed by the attachments of the journal
\* entries in journal order, and it returns the empty list, never an
\* error, for a document without the attachment or journal sub-structure.
C12_ExtractConcatenatesNeverRaises ==
    (pc = "client" /\ probe = "none" /\ ppc # "idle") =>
        /\ ppc = "ret"
        /\ attachments = Expected(issue_data)

\* the responses get_issue turns into RedmineAPIError
ApiErrorResponses == {"500", "timeout", "connection_error", "bad_json"}

\* the save of the current call raised
SaveRaised == calls.save_issue_json = 1 /\ ~calls.saved

\* C13: within one process_issue call get_issue and save_issue_json are each
\* called at most once, and when the fetch raised an API error or the save
\* raised a storage error the call has returned False to the loop of main,
\* nothing was raised to main, and no attachment download was attempted.
C13_FetchOrSaveErrorFailsOnceNoRetry ==
    InCall =>
        /\ calls.get_issue <= 1
        /\ calls.save_issue_json <= 1
        /\ (resp \in ApiErrorResponses \/ SaveRaised) =>
               /\ ppc = "ret"
               /\ result = FALSE
               /\ pc = "loop"
               /\ calls.download_attachment = 0
               /\ calls.existing = 0

C13_Witness ==
    /\ ppc = "ret"
    /\ resp = "200"
    /\ calls.get_issue = 1
    /\ SaveRaised
    /\ result = FALSE

\* what lies at the destination path of the attachment the loop is at
DestinationFile ==
    LET a == attachments[ai]
        path == <<issue_id, IF a.hasName THEN a.filename ELSE "attachment_" \o ToString(a.id)>>
    IN  IF path \in DOMAIN attFiles THEN attFiles[path] ELSE "none"

\* C14: in a pass of the attachment loop over a descriptor with an id whose
\* destination path holds a file, complete or partial, the attachment is
\* counted as a success, download_attachment is not called and the file is
\* left as it is; so a partial file is never replaced.
C14_ExistingFileCountsNoDownload ==
    /\ [][(/\ pc = "loop" /\ pc' = "loop" /\ ppc = "fan"
            /\ attachments[ai].dict /\ attachments[ai].id # 0
            /\ DestinationFile # "none")
           => /\ download_successful' = download_successful + 1
              /\ download_failed' = download_failed
              /\ calls'.download_attachment = calls.download_attachment
              /\ attFiles' = attFiles
              /\ ppc' \in {"fan", "report"}]_vars
    /\ [][\A p \in Paths : attFiles[p] = "partial" => attFiles'[p] = "partial"]_vars

C14_Witness ==
    /\ ppc = "ret"
    /\ issue_data = DocSameName
    /\ calls.download_attachment = 1
    /\ calls.download_false = 1
    /\ calls.existing = 1
    /\ download_successful = 1
    /\ attFiles[<<issue_id, "f">>] = "partial"

\* C15: every history record a run of main appended agrees with the exit
\* status of the run (SUCCESS only when it returns 0, FAILED only when it
\* returns 1), and the counts of a summary record add up to the number of
\* requested identifiers.
C15_RecordStatusAgreesWithExit ==
    pc = "done" =>
        \A i \in 1..Len(logCalls) :
            logCalls[i].wrote =>
                /\ logCalls[i].success => exit_status = 0
                /\ ~logCalls[i].success => exit_status = 1
                /\ logCalls[i].info[1] = "ok" =>
                       /\ logCalls[i].info = format_summary_info(successful_count, failed_count,
                                                                 Len(args.issue_ids))
                       /\ successful_count + failed_count = Len(args.issue_ids)

\* C16: within a process_issue call an attachment is looked at or
\* downloaded only after get_issue returned a document and save_issue_json
\* completed for the identifier in the same call, and never when
\* attachments are switched off, when the identifier was skipped as
\* existing, was not found, or when the fetch or the save failed.
C16_DownloadOnlyAfterFetchAndSave ==
    (InCall /\ (calls.download_attachment > 0 \/ calls.existing > 0
                 \/ ppc \in {"extract", "fan", "report"})) =>
        /\ calls.get_issue = 1
        /\ resp = "200"
        /\ calls.save_issue_json = 1
        /\ calls.saved
        /\ issue_id \in issueFiles
        /\ ~args.no_attachments
        /\ ~(args.skip_existing /\ calls.existed)

C16_Witness ==
    /\ ppc = "ret"
    /\ result = TRUE
    /\ calls.get_issue = 1
    /\ calls.saved
    /\ calls.download_attachment = 2

====
